---- MODULE Spec2Model ----
(***************************************************************************)
(* Model of the youtube_summarizer package: the identifier resolver         *)
(* (extract_video_id), the timestamp formatter (format_timestamp), the      *)
(* transcript renderer (format_transcript) and the two fetch orchestrators  *)
(* (downloader.download_transcript and cli.main).                           *)
(*                                                                          *)
(* Strings are sequences of one-character strings, so that regular          *)
(* expression search, zero padding and joining are computed character by    *)
(* character.  A float number of seconds is the exact rational ms/Den.      *)
(***************************************************************************)
EXTENDS Integers, Sequences, FiniteSets, TLC

VARIABLES
    entry,              \* which public entry point this invocation runs
    pc,                 \* position inside the entry point
    url_or_id,          \* extract_video_id's argument (args.video in main)
    video_id,           \* extract_video_id's result / download_transcript's argument
    seconds,            \* format_timestamp's argument, in 1/Den seconds
    timestamp,          \* format_timestamp's result
    transcript_data,    \* format_transcript's argument / the fetched segments
    include_timestamps, \* format_transcript's flag (args.timestamps in main)
    formatted,          \* format_transcript's result
    languages,          \* the language preference list, or None
    output,             \* args.output: None or a path
    svc,                \* what the external service answers for this video
    idx,                \* position of the `for lang in languages` loop
    transcript,         \* the local variable `transcript`
    calls,              \* the calls the external service has received, in order
    stdout,             \* what has been printed, in order
    outfile,            \* content of the file at args.output
    ret,                \* download_transcript's return value
    exit_code           \* the process exit status, or None while running

vars == <<entry, pc, url_or_id, video_id, seconds, timestamp, transcript_data,
          include_timestamps, formatted, languages, output, svc, idx,
          transcript, calls, stdout, outfile, ret, exit_code>>

\* Python's None; no character sequence equals it.
None == <<"None">>

\* What the local variable `transcript` holds instead of a handle: None, or
\* nothing at all (it was never assigned: reading it raises UnboundLocalError).
NoneT   == [via |-> "None", lang |-> ""]
Unbound == [via |-> "Unbound", lang |-> ""]

----------------------------------------------------------------------------
(* Characters and literals                                                  *)

Lower == {"a","b","c","d","e","f","g","h","i","j","k","l","m",
          "n","o","p","q","r","s","t","u","v","w","x","y","z"}
Upper == {"A","B","C","D","E","F","G","H","I","J","K","L","M",
          "N","O","P","Q","R","S","T","U","V","W","X","Y","Z"}
DigitChars == <<"0","1","2","3","4","5","6","7","8","9">>

\* The character class [a-zA-Z0-9_-].
IdAlphabet == Lower \cup Upper \cup {DigitChars[k] : k \in 1..10} \cup {"_", "-"}

\* {11}: the length of a video identifier.
IdLen == 11

\* The literal prefixes of the three patterns (pattern 1 has two alternatives).
WatchLit == <<"y","o","u","t","u","b","e",".","c","o","m","/","w","a","t","c","h","?","v","=">>
ShortLit == <<"y","o","u","t","u",".","b","e","/">>
EmbedLit == <<"y","o","u","t","u","b","e",".","c","o","m","/","e","m","b","e","d","/">>
VLit     == <<"y","o","u","t","u","b","e",".","c","o","m","/","v","/">>

patterns == << <<WatchLit, ShortLit>>, <<EmbedLit>>, <<VLit>> >>

----------------------------------------------------------------------------
(* extract_video_id                                                         *)

AllIdChars(s) == \A k \in 1..Len(s) : s[k] \in IdAlphabet

\* The literal lit sits at position i of s.
LitAt(s, i, lit) ==
    /\ i + Len(lit) - 1 <= Len(s)
    /\ SubSeq(s, i, i + Len(lit) - 1) = lit

\* lit([a-zA-Z0-9_-]{11}) matches s at position i.
AltMatchesAt(s, i, lit) ==
    /\ LitAt(s, i, lit)
    /\ i + Len(lit) + IdLen - 1 <= Len(s)
    /\ AllIdChars(SubSeq(s, i + Len(lit), i + Len(lit) + IdLen - 1))

\* A variant whose group is one character short ({10} for {11}).
GroupAtShort(s, i, lit) == SubSeq(s, i + Len(lit), i + Len(lit) + IdLen - 2)

\* match.group(1) of that match.
GroupAt(s, i, lit) == SubSeq(s, i + Len(lit), i + Len(lit) + IdLen - 1)

\* re.match(r'^[a-zA-Z0-9_-]{11}$', s): `$` matches at the end of the string
\* and also just before a newline that ends the string.
BareIdMatch(s) ==
    /\ Len(s) >= IdLen
    /\ AllIdChars(SubSeq(s, 1, IdLen))
    /\ \/ Len(s) = IdLen
       \/ Len(s) = IdLen + 1 /\ s[IdLen + 1] = "\n"

\* re.search(pattern, s): the leftmost position where an alternative matches,
\* the alternatives tried in order there; None when there is none.
Search(pattern, s) ==
    LET hits == {i \in 1..Len(s) : \E a \in 1..Len(pattern) : AltMatchesAt(s, i, pattern[a])}
    IN  IF hits = {} THEN None
        ELSE LET i == CHOOSE x \in hits : \A y \in hits : x <= y
                 a == CHOOSE x \in 1..Len(pattern) :
                        /\ AltMatchesAt(s, i, pattern[x])
                        /\ \A y \in 1..(x - 1) : ~AltMatchesAt(s, i, pattern[y])
             IN  GroupAt(s, i, pattern[a])

\* for pattern in patterns: the first pattern, from position p on, that is found.
RECURSIVE SearchFrom(_, _)
SearchFrom(p, s) ==
    IF p > Len(patterns) THEN None
    ELSE LET m == Search(patterns[p], s)
         IN  IF m # None THEN m ELSE SearchFrom(p + 1, s)

\* A variant without the bare-identifier test.
extract_video_id_url_only(s) == SearchFrom(1, s)

extract_video_id(s) ==
    IF BareIdMatch(s) THEN s ELSE SearchFrom(1, s)

----------------------------------------------------------------------------
(* format_timestamp                                                         *)

\* A float `seconds` is the rational seconds / FracSteps: FracSteps is the
\* resolution of the fractional part that the inputs explore.
FracSteps == 2

\* hours = int(seconds // 3600)
hours_of(sec) == sec \div (3600 * FracSteps)

\* minutes = int((seconds % 3600) // 60)
minutes_of(sec) == (sec % (3600 * FracSteps)) \div (60 * FracSteps)

\* A variant that rounds to the nearest second instead of truncating.
secs_rounded(sec) == (2 * (sec % (60 * FracSteps)) + FracSteps) \div (2 * FracSteps)

\* secs = int(seconds % 60)
secs_of(sec) == (sec % (60 * FracSteps)) \div FracSteps

\* str(n) for n >= 0.
RECURSIVE Decimal(_)
Decimal(n) ==
    IF n < 10 THEN <<DigitChars[n + 1]>>
    ELSE Decimal(n \div 10) \o <<DigitChars[(n % 10) + 1]>>

\* f"{n:02d}": the decimal digits, left-padded with zeros to width 2.
fmt02d(n) == IF n < 10 THEN <<"0">> \o Decimal(n) ELSE Decimal(n)

format_timestamp(sec) ==
    LET hours   == hours_of(sec)
        minutes == minutes_of(sec)
        secs    == secs_of(sec)
    IN  IF hours > 0
        THEN fmt02d(hours) \o <<":">> \o fmt02d(minutes) \o <<":">> \o fmt02d(secs)
        ELSE fmt02d(minutes) \o <<":">> \o fmt02d(secs)

----------------------------------------------------------------------------
(* format_transcript                                                        *)

\* One entry's line: f"[{timestamp}] {entry['text']}" or entry['text'].
entry_line(e, with_ts) ==
    IF with_ts
    THEN <<"[">> \o format_timestamp(e.start) \o <<"]", " ">> \o e.text
    ELSE e.text

\* A variant that ends every line, the last one too, with the separator.
RECURSIVE join_trailing(_, _)
join_trailing(sep, lines) ==
    IF lines = <<>> THEN <<>>
    ELSE Head(lines) \o sep \o join_trailing(sep, Tail(lines))

\* sep.join(lines)
RECURSIVE join(_, _)
join(sep, lines) ==
    IF lines = <<>> THEN <<>>
    ELSE IF Len(lines) = 1 THEN Head(lines)
    ELSE Head(lines) \o sep \o join(sep, Tail(lines))

format_transcript(data, with_ts) ==
    LET lines == [k \in 1..Len(data) |-> entry_line(data[k], with_ts)]
    IN  join(<<"\n">>, lines)

----------------------------------------------------------------------------
(* Inputs                                                                   *)

\* Bounds of the explored inputs.
MaxPad == 1
MaxExtra == 1
MaxSeconds == 3700
MaxSegments == 3
MaxLangs == 3
MaxListing == 2

Id1 == <<"d","Q","w","4","w","9","W","g","X","c","Q">>
Id2 == <<"a","_","b","-","0","1","2","3","4","5","Z">>

\* k filler characters, as a host prefix or as a longer identifier position.
Pad(k) == [j \in 1..k |-> "w"]

\* What stands where the URL shape would: nothing, one of the four supported
\* shapes, or a shape without the youtube.com host in front of it.
Heads == {<<>>, WatchLit, ShortLit, EmbedLit, VLit,
          SubSeq(WatchLit, 13, 20), SubSeq(EmbedLit, 12, 18), SubSeq(VLit, 12, 14)}

\* What stands at the identifier position: nothing, an identifier, one that is
\* too short, one holding a character outside the alphabet, one followed by
\* more identifier characters.
IdParts == {<<>>, Id1, Id2, SubSeq(Id1, 1, IdLen - 1),
            [Id1 EXCEPT ![5] = "!"], [Id1 EXCEPT ![IdLen] = " "]}
           \cup {Id1 \o Pad(k) : k \in 1..MaxExtra}

\* What follows: nothing, a query parameter, a line break, a query parameter
\* whose value is itself a link.
Tails == {<<>>, <<"&","t","=","4","2","s">>, <<"\n">>,
          <<"?","u","=">> \o ShortLit \o Id2,
          <<"?","u","=">> \o EmbedLit \o Id2,
          <<"&","u","=">> \o ShortLit \o Id1}

ExtractInputs ==
    {Pad(k) \o h \o i \o t : k \in 0..MaxPad, h \in Heads, i \in IdParts, t \in Tails}

\* Whole and fractional seconds up to MaxSeconds, and some around 100 hours.
SecondsInputs ==
    (0..(MaxSeconds * FracSteps + FracSteps - 1))
    \cup {(h * 3600 + d) * FracSteps + FracSteps - 1 :
            h \in {99, 100, 101}, d \in {0, 59, 60, 3599}}

Segments ==
    {[start |-> st, text |-> tx] :
        st \in {0, 65 * FracSteps + 1, 3661 * FracSteps},
        tx \in {<<>>, <<"H","i">>, <<"a","\n","b">>}}

SeqsUpTo(S, n) == UNION {[1..k -> S] : k \in 0..n}

TranscriptInputs == SeqsUpTo(Segments, MaxSegments)

Langs == {"en", "es"}

\* The transcript handles the service hands out.
Found(lang) == [via |-> "find_transcript", lang |-> lang]
Generated   == [via |-> "find_generated_transcript", lang |-> "en"]
Listed      == {[via |-> "listing", lang |-> l] : l \in Langs}

\* What the service answers for one video: the languages find_transcript
\* succeeds for, whether find_generated_transcript(['en']) succeeds, and what
\* iterating the listing yields, in order.
Services ==
    [avail : SUBSET Langs, genOk : BOOLEAN, listing : SeqsUpTo(Listed, MaxListing)]

\* What fetch() returns when it succeeds.
FetchData ==
    {<<>>,
     <<[start |-> 0, text |-> <<"H","i">>],
       [start |-> 65 * FracSteps + 1, text |-> <<"y","o">>]>>}

\* args.video of main: a bare identifier, a link, strings that resolve to nothing.
MainVideos == {Id1, Pad(1) \o WatchLit \o Id2 \o <<"&","t","=","4","2","s">>,
               <<"s","h","o","r","t">>, <<>>}

OldContent == <<"o","l","d">>
Path == <<"t",".","t","x","t">>

----------------------------------------------------------------------------
(* Initial states: one invocation of one public entry point                 *)

Idle ==
    /\ pc = "start"
    /\ idx = 0
    /\ transcript = Unbound
    /\ calls = <<>>
    /\ stdout = <<>>
    /\ ret = None
    /\ exit_code = None
    /\ timestamp = None
    /\ formatted = None

InitExtract ==
    /\ entry = "extract_video_id"
    /\ url_or_id \in ExtractInputs
    /\ video_id = None /\ seconds = 0 /\ transcript_data = <<>>
    /\ include_timestamps = FALSE /\ languages = None /\ output = None
    /\ svc = None /\ outfile = None

InitTimestamp ==
    /\ entry = "format_timestamp"
    /\ seconds \in SecondsInputs
    /\ url_or_id = None /\ video_id = None /\ transcript_data = <<>>
    /\ include_timestamps = FALSE /\ languages = None /\ output = None
    /\ svc = None /\ outfile = None

InitTranscript ==
    /\ entry = "format_transcript"
    /\ transcript_data \in TranscriptInputs
    /\ include_timestamps \in BOOLEAN
    /\ url_or_id = None /\ video_id = None /\ seconds = 0
    /\ languages = None /\ output = None /\ svc = None /\ outfile = None

\* download_transcript(video_id, languages=None)
InitDownload ==
    /\ entry = "download_transcript"
    /\ video_id \in {Id1, Id2}
    /\ languages \in {None} \cup SeqsUpTo(Langs, MaxLangs)
    /\ svc \in Services
    /\ url_or_id = None /\ seconds = 0 /\ transcript_data = <<>>
    /\ include_timestamps = FALSE /\ output = None /\ outfile = None

\* main(): nargs='+' never yields an empty list for --languages.
InitMain ==
    /\ entry = "main"
    /\ url_or_id \in MainVideos
    /\ languages \in {None} \cup (SeqsUpTo(Langs, MaxLangs) \ {<<>>})
    /\ include_timestamps \in BOOLEAN
    /\ output \in {None, Path}
    /\ outfile \in IF output = None THEN {None} ELSE {None, OldContent}
    /\ svc \in Services
    /\ video_id = None /\ seconds = 0 /\ transcript_data = <<>>

Init ==
    /\ Idle
    /\ \/ InitExtract
       \/ InitTimestamp
       \/ InitTranscript
       \/ InitDownload
       \/ InitMain

----------------------------------------------------------------------------
(* The pure entry points                                                    *)

Call_extract_video_id ==
    /\ entry = "extract_video_id" /\ pc = "start"
    /\ video_id' = extract_video_id(url_or_id)
    /\ pc' = "returned"
    /\ UNCHANGED <<entry, url_or_id, seconds, timestamp, transcript_data,
                   include_timestamps, formatted, languages, output, svc, idx,
                   transcript, calls, stdout, outfile, ret, exit_code>>

Call_format_timestamp ==
    /\ entry = "format_timestamp" /\ pc = "start"
    /\ timestamp' = format_timestamp(seconds)
    /\ pc' = "returned"
    /\ UNCHANGED <<entry, url_or_id, video_id, seconds, transcript_data,
                   include_timestamps, formatted, languages, output, svc, idx,
                   transcript, calls, stdout, outfile, ret, exit_code>>

Call_format_transcript ==
    /\ entry = "format_transcript" /\ pc = "start"
    /\ formatted' = format_transcript(transcript_data, include_timestamps)
    /\ pc' = "returned"
    /\ UNCHANGED <<entry, url_or_id, video_id, seconds, timestamp, transcript_data,
                   include_timestamps, languages, output, svc, idx,
                   transcript, calls, stdout, outfile, ret, exit_code>>

----------------------------------------------------------------------------
(* Shared notation of the two orchestrators                                 *)

\* `if languages:` -- None and the empty list are both false.
Truthy(langs) == langs # None /\ langs # <<>>

\* The external service receives a call and answers it (ok) or raises.
Sent(op, arg, ok) == calls' = Append(calls, [op |-> op, arg |-> arg, ok |-> ok])

\* print(...)
Printed(msgs) == stdout' = stdout \o msgs

Msg(m, a) == [msg |-> m, arg |-> a]

\* sys.exit(1)
Exit1 == exit_code' = 1 /\ pc' = "exited"

\* The arguments of the invocation and the service's answers never change.
Frame ==
    UNCHANGED <<entry, url_or_id, seconds, timestamp, include_timestamps,
                languages, output, svc>>

----------------------------------------------------------------------------
(* downloader.download_transcript                                           *)

\* from youtube_transcript_api import YouTubeTranscriptApi
DT_Import ==
    /\ entry = "download_transcript" /\ pc = "start"
    /\ \E ok \in BOOLEAN :
        IF ok
        THEN pc' = "list" /\ UNCHANGED <<stdout, exit_code>>
        ELSE /\ Printed(<<Msg("not_installed", None), Msg("install_hint", None)>>)
             /\ Exit1
    /\ Frame
    /\ UNCHANGED <<video_id, transcript_data, formatted, idx, transcript, calls,
                   outfile, ret>>

\* transcript_list = api.list(video_id); if languages: transcript = None
DT_List ==
    /\ entry = "download_transcript" /\ pc = "list"
    /\ \E ok \in BOOLEAN :
        /\ Sent("list", video_id, ok)
        /\ IF ok
           THEN /\ IF Truthy(languages)
                   THEN transcript' = NoneT /\ idx' = 1 /\ pc' = "find"
                   ELSE pc' = "np_gen" /\ UNCHANGED <<transcript, idx>>
                /\ UNCHANGED <<stdout, exit_code>>
           ELSE /\ Printed(<<Msg("error_downloading", "list")>>)
                /\ Exit1
                /\ UNCHANGED <<transcript, idx>>
    /\ Frame
    /\ UNCHANGED <<video_id, transcript_data, formatted, outfile, ret>>

\* A variant of the loop body without the `break`: the loop goes on after a
\* successful lookup.
DT_FindTranscript_NoBreak ==
    /\ entry = "download_transcript" /\ pc = "find"
    /\ Sent("find_transcript", <<languages[idx]>>, languages[idx] \in svc.avail)
    /\ transcript' = IF languages[idx] \in svc.avail
                     THEN Found(languages[idx]) ELSE transcript
    /\ IF idx < Len(languages)
       THEN idx' = idx + 1 /\ pc' = "find"
       ELSE /\ idx' = idx
            /\ pc' = IF transcript' = NoneT THEN "fb_gen" ELSE "fetch"
    /\ Frame
    /\ UNCHANGED <<video_id, transcript_data, formatted, stdout, outfile, ret,
                   exit_code>>

\* One round of `for lang in languages`: find_transcript([lang]); break on
\* success, continue on any exception; after the loop, `if not transcript`.
DT_FindTranscript ==
    /\ entry = "download_transcript" /\ pc = "find"
    /\ Sent("find_transcript", <<languages[idx]>>, languages[idx] \in svc.avail)
    /\ IF languages[idx] \in svc.avail
       THEN /\ transcript' = Found(languages[idx])
            /\ pc' = "fetch"
            /\ idx' = idx
       ELSE /\ transcript' = transcript
            /\ IF idx < Len(languages)
               THEN idx' = idx + 1 /\ pc' = "find"
               ELSE idx' = idx /\ pc' = "fb_gen"
    /\ Frame
    /\ UNCHANGED <<video_id, transcript_data, formatted, stdout, outfile, ret,
                   exit_code>>

\* A variant of the fallback that takes the listing's first transcript
\* without trying the generated lookup.
DT_FallbackGenerated_Skip ==
    /\ entry = "download_transcript" /\ pc = "fb_gen"
    /\ Sent("iter", None, svc.listing # <<>>)
    /\ IF svc.listing # <<>>
       THEN transcript' = svc.listing[1] /\ pc' = "fetch"
       ELSE transcript' = transcript /\ pc' = "fb_iter"
    /\ Frame
    /\ UNCHANGED <<video_id, transcript_data, formatted, idx, stdout, outfile,
                   ret, exit_code>>

\* if not transcript: try: transcript = find_generated_transcript(['en'])
DT_FallbackGenerated ==
    /\ entry = "download_transcript" /\ pc = "fb_gen"
    /\ Sent("find_generated_transcript", <<"en">>, svc.genOk)
    /\ IF svc.genOk
       THEN transcript' = Generated /\ pc' = "fetch"
       ELSE transcript' = transcript /\ pc' = "fb_iter"
    /\ Frame
    /\ UNCHANGED <<video_id, transcript_data, formatted, idx, stdout, outfile,
                   ret, exit_code>>

\* except: for t in transcript_list: transcript = t; break.  When the listing
\* yields nothing, transcript is still None and transcript.fetch() raises
\* AttributeError at once: `except Exception` prints and exits with status 1.
DT_FallbackIterate ==
    /\ entry = "download_transcript" /\ pc = "fb_iter"
    /\ Sent("iter", None, svc.listing # <<>>)
    /\ IF svc.listing # <<>>
       THEN /\ transcript' = svc.listing[1]
            /\ pc' = "fetch"
            /\ UNCHANGED <<stdout, exit_code>>
       ELSE /\ transcript' = transcript
            /\ Printed(<<Msg("error_downloading", "no transcript")>>)
            /\ Exit1
    /\ Frame
    /\ UNCHANGED <<video_id, transcript_data, formatted, idx, outfile, ret>>

\* else: try: transcript = find_generated_transcript(['en'])
DT_NoPrefGenerated ==
    /\ entry = "download_transcript" /\ pc = "np_gen"
    /\ Sent("find_generated_transcript", <<"en">>, svc.genOk)
    /\ IF svc.genOk
       THEN transcript' = Generated /\ pc' = "fetch"
       ELSE transcript' = transcript /\ pc' = "np_iter"
    /\ Frame
    /\ UNCHANGED <<video_id, transcript_data, formatted, idx, stdout, outfile,
                   ret, exit_code>>

\* except: for t in transcript_list: transcript = t; break.  When the listing
\* yields nothing, transcript was never assigned and transcript.fetch()
\* raises UnboundLocalError at once: `except Exception` prints and exits.
DT_NoPrefIterate ==
    /\ entry = "download_transcript" /\ pc = "np_iter"
    /\ Sent("iter", None, svc.listing # <<>>)
    /\ IF svc.listing # <<>>
       THEN /\ transcript' = svc.listing[1]
            /\ pc' = "fetch"
            /\ UNCHANGED <<stdout, exit_code>>
       ELSE /\ transcript' = transcript
            /\ Printed(<<Msg("error_downloading", "no transcript")>>)
            /\ Exit1
    /\ Frame
    /\ UNCHANGED <<video_id, transcript_data, formatted, idx, outfile, ret>>

\* transcript_data = transcript.fetch() on the selected handle; an exception
\* ends in `except Exception`, which prints and exits with status 1.
DT_Fetch ==
    /\ entry = "download_transcript" /\ pc = "fetch"
    /\ transcript \notin {NoneT, Unbound}
    /\ \E ok \in BOOLEAN :
        /\ Sent("fetch", transcript, ok)
        /\ IF ok
           THEN /\ transcript_data' \in FetchData
                /\ pc' = "render"
                /\ UNCHANGED <<stdout, exit_code>>
           ELSE /\ Printed(<<Msg("error_downloading", "fetch")>>)
                /\ Exit1
                /\ UNCHANGED transcript_data
    /\ Frame
    /\ UNCHANGED <<video_id, formatted, idx, transcript, outfile, ret>>

\* return format_transcript(transcript_data.to_raw_data())
DT_Return ==
    /\ entry = "download_transcript" /\ pc = "render"
    /\ formatted' = format_transcript(transcript_data, FALSE)
    /\ ret' = formatted'
    /\ pc' = "returned"
    /\ Frame
    /\ UNCHANGED <<video_id, transcript_data, idx, transcript, calls, stdout,
                   outfile, exit_code>>

----------------------------------------------------------------------------
(* cli.main                                                                 *)

\* video_id = extract_video_id(args.video); if not video_id: print, exit(1)
Main_Resolve ==
    /\ entry = "main" /\ pc = "start"
    /\ video_id' = extract_video_id(url_or_id)
    /\ IF video_id' = None \/ video_id' = <<>>
       THEN Printed(<<Msg("error_invalid", url_or_id)>>) /\ Exit1
       ELSE /\ Printed(<<Msg("downloading", video_id')>>)
            /\ pc' = "import"
            /\ UNCHANGED exit_code
    /\ Frame
    /\ UNCHANGED <<transcript_data, formatted, idx, transcript, calls, outfile, ret>>

\* from youtube_transcript_api import YouTubeTranscriptApi / except ImportError
Main_Import ==
    /\ entry = "main" /\ pc = "import"
    /\ \E ok \in BOOLEAN :
        IF ok
        THEN pc' = "list" /\ UNCHANGED <<stdout, exit_code>>
        ELSE /\ Printed(<<Msg("not_installed", None), Msg("install_hint", None)>>)
             /\ Exit1
    /\ Frame
    /\ UNCHANGED <<video_id, transcript_data, formatted, idx, transcript, calls,
                   outfile, ret>>

\* A variant that lists with the raw argument instead of the resolved id.
Main_List_RawArg ==
    /\ entry = "main" /\ pc = "list"
    /\ \E ok \in BOOLEAN :
        /\ Sent("list", url_or_id, ok)
        /\ IF ok
           THEN /\ IF Truthy(languages)
                   THEN transcript' = NoneT /\ idx' = 1 /\ pc' = "find"
                   ELSE pc' = "np_gen" /\ UNCHANGED <<transcript, idx>>
                /\ UNCHANGED <<stdout, exit_code>>
           ELSE /\ Printed(<<Msg("error", "list")>>)
                /\ Exit1
                /\ UNCHANGED <<transcript, idx>>
    /\ Frame
    /\ UNCHANGED <<video_id, transcript_data, formatted, outfile, ret>>

\* transcript_list = api.list(video_id); if args.languages: transcript = None
Main_List ==
    /\ entry = "main" /\ pc = "list"
    /\ \E ok \in BOOLEAN :
        /\ Sent("list", video_id, ok)
        /\ IF ok
           THEN /\ IF Truthy(languages)
                   THEN transcript' = NoneT /\ idx' = 1 /\ pc' = "find"
                   ELSE pc' = "np_gen" /\ UNCHANGED <<transcript, idx>>
                /\ UNCHANGED <<stdout, exit_code>>
           ELSE /\ Printed(<<Msg("error", "list")>>)
                /\ Exit1
                /\ UNCHANGED <<transcript, idx>>
    /\ Frame
    /\ UNCHANGED <<video_id, transcript_data, formatted, outfile, ret>>

\* One round of `for lang in args.languages`; after the loop, `if not
\* transcript` prints the two fallback notices.
Main_FindTranscript ==
    /\ entry = "main" /\ pc = "find"
    /\ Sent("find_transcript", <<languages[idx]>>, languages[idx] \in svc.avail)
    /\ IF languages[idx] \in svc.avail
       THEN /\ transcript' = Found(languages[idx])
            /\ Printed(<<Msg("found", languages[idx])>>)
            /\ pc' = "fetch"
            /\ idx' = idx
       ELSE /\ transcript' = transcript
            /\ IF idx < Len(languages)
               THEN idx' = idx + 1 /\ pc' = "find" /\ UNCHANGED stdout
               ELSE /\ idx' = idx
                    /\ pc' = "fb_gen"
                    /\ Printed(<<Msg("no_transcript_found", languages),
                                 Msg("trying_any", None)>>)
    /\ Frame
    /\ UNCHANGED <<video_id, transcript_data, formatted, outfile, ret, exit_code>>

\* A variant of main's fallback that gives up when the generated lookup
\* fails, without iterating the listing.
Main_FallbackGenerated_NoIter ==
    /\ entry = "main" /\ pc = "fb_gen"
    /\ Sent("find_generated_transcript", <<"en">>, svc.genOk)
    /\ IF svc.genOk
       THEN /\ transcript' = Generated /\ pc' = "fetch"
            /\ UNCHANGED <<stdout, exit_code>>
       ELSE /\ transcript' = transcript
            /\ Printed(<<Msg("error", "no transcript")>>)
            /\ Exit1
    /\ Frame
    /\ UNCHANGED <<video_id, transcript_data, formatted, idx, outfile, ret>>

\* try: transcript = transcript_list.find_generated_transcript(['en'])
Main_FallbackGenerated ==
    /\ entry = "main" /\ pc = "fb_gen"
    /\ Sent("find_generated_transcript", <<"en">>, svc.genOk)
    /\ IF svc.genOk
       THEN transcript' = Generated /\ pc' = "fetch"
       ELSE transcript' = transcript /\ pc' = "fb_iter"
    /\ Frame
    /\ UNCHANGED <<video_id, transcript_data, formatted, idx, stdout, outfile,
                   ret, exit_code>>

\* except: for t in transcript_list: transcript = t; break.  When the listing
\* yields nothing, transcript is still None and transcript.fetch() raises
\* AttributeError at once: `except Exception` prints and exits with status 1.
Main_FallbackIterate ==
    /\ entry = "main" /\ pc = "fb_iter"
    /\ Sent("iter", None, svc.listing # <<>>)
    /\ IF svc.listing # <<>>
       THEN /\ transcript' = svc.listing[1]
            /\ pc' = "fetch"
            /\ UNCHANGED <<stdout, exit_code>>
       ELSE /\ transcript' = transcript
            /\ Printed(<<Msg("error", "no transcript")>>)
            /\ Exit1
    /\ Frame
    /\ UNCHANGED <<video_id, transcript_data, formatted, idx, outfile, ret>>

\* A variant of the no-preference branch that iterates the listing first.
Main_NoPrefGenerated_IterFirst ==
    /\ entry = "main" /\ pc = "np_gen"
    /\ IF svc.listing # <<>>
       THEN Sent("iter", None, TRUE) /\ transcript' = svc.listing[1] /\ pc' = "fetch"
       ELSE /\ Sent("find_generated_transcript", <<"en">>, svc.genOk)
            /\ IF svc.genOk
               THEN transcript' = Generated /\ pc' = "fetch"
               ELSE transcript' = transcript /\ pc' = "np_iter"
    /\ Frame
    /\ UNCHANGED <<video_id, transcript_data, formatted, idx, stdout, outfile,
                   ret, exit_code>>

\* else: try: transcript = transcript_list.find_generated_transcript(['en'])
Main_NoPrefGenerated ==
    /\ entry = "main" /\ pc = "np_gen"
    /\ Sent("find_generated_transcript", <<"en">>, svc.genOk)
    /\ IF svc.genOk
       THEN transcript' = Generated /\ pc' = "fetch"
       ELSE transcript' = transcript /\ pc' = "np_iter"
    /\ Frame
    /\ UNCHANGED <<video_id, transcript_data, formatted, idx, stdout, outfile,
                   ret, exit_code>>

\* except: for t in transcript_list: transcript = t; break.  When the listing
\* yields nothing, transcript was never assigned and transcript.fetch()
\* raises UnboundLocalError at once: `except Exception` prints and exits.
Main_NoPrefIterate ==
    /\ entry = "main" /\ pc = "np_iter"
    /\ Sent("iter", None, svc.listing # <<>>)
    /\ IF svc.listing # <<>>
       THEN /\ transcript' = svc.listing[1]
            /\ pc' = "fetch"
            /\ UNCHANGED <<stdout, exit_code>>
       ELSE /\ transcript' = transcript
            /\ Printed(<<Msg("error", "no transcript")>>)
            /\ Exit1
    /\ Frame
    /\ UNCHANGED <<video_id, transcript_data, formatted, idx, outfile, ret>>

\* A variant that opens the output file for writing before fetch(): the
\* file is already truncated when fetch() fails.
Main_Fetch_OpenEarly ==
    /\ entry = "main" /\ pc = "fetch"
    /\ transcript \notin {NoneT, Unbound}
    /\ \E ok \in BOOLEAN :
        /\ Sent("fetch", transcript, ok)
        /\ IF ok
           THEN /\ transcript_data' \in FetchData
                /\ pc' = "output"
                /\ UNCHANGED <<stdout, exit_code, outfile>>
           ELSE /\ Printed(<<Msg("error", "fetch")>>)
                /\ Exit1
                /\ outfile' = IF output # None THEN <<>> ELSE outfile
                /\ UNCHANGED transcript_data
    /\ Frame
    /\ UNCHANGED <<video_id, formatted, idx, transcript, ret>>

\* A variant that calls fetch() a second time when the first call fails.
Main_Fetch_Retry ==
    /\ entry = "main" /\ pc = "fetch"
    /\ transcript \notin {NoneT, Unbound}
    /\ \E ok \in BOOLEAN :
        IF ok
        THEN /\ Sent("fetch", transcript, TRUE)
             /\ transcript_data' \in FetchData
             /\ pc' = "output"
             /\ UNCHANGED <<stdout, exit_code>>
        ELSE /\ calls' = calls \o
                    <<[op |-> "fetch", arg |-> transcript, ok |-> FALSE],
                      [op |-> "fetch", arg |-> transcript, ok |-> FALSE]>>
             /\ Printed(<<Msg("error", "fetch")>>)
             /\ Exit1
             /\ UNCHANGED transcript_data
    /\ Frame
    /\ UNCHANGED <<video_id, formatted, idx, transcript, outfile, ret>>

\* transcript_data = transcript.fetch() on the selected handle; an exception
\* ends in `except Exception`, which prints and exits with status 1.
Main_Fetch ==
    /\ entry = "main" /\ pc = "fetch"
    /\ transcript \notin {NoneT, Unbound}
    /\ \E ok \in BOOLEAN :
        /\ Sent("fetch", transcript, ok)
        /\ IF ok
           THEN /\ transcript_data' \in FetchData
                /\ pc' = "output"
                /\ UNCHANGED <<stdout, exit_code>>
           ELSE /\ Printed(<<Msg("error", "fetch")>>)
                /\ Exit1
                /\ UNCHANGED transcript_data
    /\ Frame
    /\ UNCHANGED <<video_id, formatted, idx, transcript, outfile, ret>>

\* formatted_transcript = format_transcript(..., args.timestamps); then the
\* text goes to the file at args.output (open(..., 'w') may raise OSError,
\* which `except Exception` turns into exit status 1) or to standard output.
Main_Output ==
    /\ entry = "main" /\ pc = "output"
    /\ formatted' = format_transcript(transcript_data, include_timestamps)
    /\ IF output # None
       THEN \E opened \in BOOLEAN :
                IF opened
                THEN /\ outfile' = formatted'
                     /\ Printed(<<Msg("saved", output)>>)
                     /\ exit_code' = 0 /\ pc' = "exited"
                ELSE /\ Printed(<<Msg("error", "open")>>)
                     /\ Exit1
                     /\ UNCHANGED outfile
       ELSE /\ Printed(<<Msg("banner", None), Msg("text", formatted')>>)
            /\ exit_code' = 0 /\ pc' = "exited"
            /\ UNCHANGED outfile
    /\ Frame
    /\ UNCHANGED <<video_id, transcript_data, idx, transcript, calls, ret>>

----------------------------------------------------------------------------

Next ==
    \/ Call_extract_video_id
    \/ Call_format_timestamp
    \/ Call_format_transcript
    \/ DT_Import
    \/ DT_List
    \/ DT_FindTranscript
    \/ DT_FallbackGenerated
    \/ DT_FallbackIterate
    \/ DT_NoPrefGenerated
    \/ DT_NoPrefIterate
    \/ DT_Fetch
    \/ DT_Return
    \/ Main_Resolve
    \/ Main_Import
    \/ Main_List
    \/ Main_FindTranscript
    \/ Main_FallbackGenerated
    \/ Main_FallbackIterate
    \/ Main_NoPrefGenerated
    \/ Main_NoPrefIterate
    \/ Main_Fetch
    \/ Main_Output

Spec == Init /\ [][Next]_vars

----------------------------------------------------------------------------
(* Claims about extract_video_id                                            *)

\* The resolver has run on url_or_id and video_id holds its result.
Resolved ==
    \/ entry = "extract_video_id" /\ pc = "returned"
    \/ entry = "main" /\ pc # "start"

\* A valid Video Identifier: exactly 11 characters of the alphabet.
ValidId(s) == Len(s) = IdLen /\ \A k \in 1..Len(s) : s[k] \in IdAlphabet

\* The supported URL shapes, with the host part the patterns ask for.
Shapes == {WatchLit, ShortLit, EmbedLit, VLit}

\* Shape lit stands at position i of s with 11 identifier characters after it.
Occurs(s, i, lit) ==
    /\ i >= 1 /\ i + Len(lit) + IdLen - 1 <= Len(s)
    /\ \A k \in 1..Len(lit) : s[i + k - 1] = lit[k]
    /\ \A k \in 1..IdLen : s[i + Len(lit) + k - 1] \in IdAlphabet

\* The 11 characters after the shape.
Embedded(s, i, lit) == [k \in 1..IdLen |-> s[i + Len(lit) + k - 1]]

\* ... and the identifier ends there: the input ends or a character outside
\* the alphabet (such as & or ?) follows.
OccursDelimited(s, i, lit) ==
    /\ Occurs(s, i, lit)
    /\ \/ i + Len(lit) + IdLen - 1 = Len(s)
       \/ s[i + Len(lit) + IdLen] \notin IdAlphabet

Occurrences(s) == {<<i, lit>> \in (1..Len(s)) \X Shapes : Occurs(s, i, lit)}

\* C1: every input of exactly 11 identifier characters resolves to itself.
C1_BareIdUnchanged ==
    (Resolved /\ ValidId(url_or_id)) => video_id = url_or_id

C1_Witness ==
    Resolved /\ ValidId(url_or_id) /\ video_id = Id2

\* C2 as stated: the identifier of the URL, that is of the first supported
\* shape in the input, is the result whatever is appended after it.
C2_Original ==
    Resolved =>
        \A o \in Occurrences(url_or_id) :
            (/\ OccursDelimited(url_or_id, o[1], o[2])
             /\ \A q \in Occurrences(url_or_id) : o[1] <= q[1])
            => video_id = Embedded(url_or_id, o[1], o[2])

\* C2 amended: when every supported shape in the input is followed by the
\* same 11 identifier characters, those characters are the result, whatever
\* else is appended.
C2_EmbeddedId ==
    Resolved =>
        \A o \in Occurrences(url_or_id) :
            (\A q \in Occurrences(url_or_id) :
                Embedded(url_or_id, q[1], q[2]) = Embedded(url_or_id, o[1], o[2]))
            => video_id = Embedded(url_or_id, o[1], o[2])

\* An embed link with an extra query parameter appended resolves to its id.
C2_Witness ==
    /\ Resolved
    /\ \E o \in Occurrences(url_or_id) :
        /\ o[2] = EmbedLit
        /\ Len(url_or_id) > o[1] + Len(EmbedLit) + IdLen - 1
        /\ video_id = Embedded(url_or_id, o[1], o[2])

\* C3 as stated: an input that is neither a valid bare identifier nor holds a
\* supported URL shape resolves to None.
C3_Original ==
    (Resolved /\ ~ValidId(url_or_id) /\ Occurrences(url_or_id) = {})
        => video_id = None

----------------------------------------------------------------------------
(* Claims about format_timestamp                                            *)

IsDigit(c) == \E d \in 1..10 : DigitChars[d] = c

DigitValue(c) == (CHOOSE d \in 1..10 : DigitChars[d] = c) - 1

\* The number a string of decimal digits denotes.
RECURSIVE FieldValue(_)
FieldValue(f) ==
    IF f = <<>> THEN 0
    ELSE 10 * FieldValue(SubSeq(f, 1, Len(f) - 1)) + DigitValue(f[Len(f)])

\* The fields of a string, cut at every colon.
RECURSIVE SplitColon(_)
SplitColon(s) ==
    IF \A k \in 1..Len(s) : s[k] # ":" THEN <<s>>
    ELSE LET c == CHOOSE k \in 1..Len(s) : s[k] = ":" /\ \A j \in 1..(k - 1) : s[j] # ":"
         IN  <<SubSeq(s, 1, c - 1)>> \o SplitColon(SubSeq(s, c + 1, Len(s)))

\* f shows the number v zero-padded to width 2: digits only, at least two of
\* them, and a leading zero only to reach that width.
ShowsPadded(f, v) ==
    /\ Len(f) >= 2
    /\ \A k \in 1..Len(f) : IsDigit(f[k])
    /\ Len(f) > 2 => f[1] # "0"
    /\ FieldValue(f) = v

\* C4: with the seconds truncated to a whole number w = 3600h + 60m + c
\* (m, c < 60), the result is h:m:c when h > 0 and m:c when h = 0, every
\* field zero-padded to width 2.
C4_TimestampFields ==
    (entry = "format_timestamp" /\ pc = "returned") =>
        LET w == seconds \div FracSteps
            h == w \div 3600
            m == (w - 3600 * h) \div 60
            c == w - 3600 * h - 60 * m
            fields == SplitColon(timestamp)
        IN  IF h > 0
            THEN /\ Len(fields) = 3
                 /\ ShowsPadded(fields[1], h)
                 /\ ShowsPadded(fields[2], m)
                 /\ ShowsPadded(fields[3], c)
            ELSE /\ Len(fields) = 2
                 /\ ShowsPadded(fields[1], m)
                 /\ ShowsPadded(fields[2], c)

\* A fractional number of seconds beyond one hour has been formatted.
C4_Witness ==
    /\ entry = "format_timestamp" /\ pc = "returned"
    /\ seconds % FracSteps # 0
    /\ seconds > 3600 * FracSteps
    /\ Len(timestamp) = 8

----------------------------------------------------------------------------
(* Claims about format_transcript                                           *)

\* format_transcript has run on transcript_data with include_timestamps.
Rendered == formatted # None

\* The line the claim gives segment k.
ExpectedLine(k) ==
    IF include_timestamps
    THEN <<"[">> \o format_timestamp(transcript_data[k].start) \o <<"]", " ">>
         \o transcript_data[k].text
    ELSE transcript_data[k].text

\* Where line k starts in the result: after the k-1 lines before it and one
\* separator for each.
RECURSIVE LineOffset(_)
LineOffset(k) ==
    IF k = 1 THEN 0 ELSE LineOffset(k - 1) + Len(ExpectedLine(k - 1)) + 1

\* C5: the result holds the segments' lines in input order, one newline
\* between consecutive lines, nothing before the first or after the last;
\* the empty sequence gives the empty string.
C5_LinesInOrder ==
    Rendered =>
        LET n == Len(transcript_data)
        IN  IF n = 0 THEN formatted = <<>>
            ELSE /\ Len(formatted) = LineOffset(n) + Len(ExpectedLine(n))
                 /\ \A k \in 1..n :
                        SubSeq(formatted, LineOffset(k) + 1,
                               LineOffset(k) + Len(ExpectedLine(k))) = ExpectedLine(k)
                 /\ \A k \in 1..(n - 1) :
                        formatted[LineOffset(k) + Len(ExpectedLine(k)) + 1] = "\n"

\* Three segments have been rendered with timestamps.
C5_Witness ==
    /\ entry = "format_transcript" /\ pc = "returned"
    /\ include_timestamps
    /\ Len(transcript_data) = 3
    /\ transcript_data[1] # transcript_data[2]
    /\ formatted # <<>>

----------------------------------------------------------------------------
(* Claims about the fetch orchestrators                                     *)

Orchestrating == entry \in {"download_transcript", "main"}

\* The invocation is over.
Ended == pc \in {"exited", "returned"}

\* The positions of the log that hold a call of one of the given kinds.
CallsOf(ops) == {k \in 1..Len(calls) : calls[k].op \in ops}

Lookups == {"find_transcript", "find_generated_transcript", "iter"}

\* The handle a successful lookup hands back.
HandleOf(c) ==
    IF c.op = "find_transcript" THEN [via |-> "find_transcript", lang |-> c.arg[1]]
    ELSE IF c.op = "find_generated_transcript"
         THEN [via |-> "find_generated_transcript", lang |-> "en"]
    ELSE svc.listing[1]

\* The find_transcript calls received so far, in order.
FindCalls == SelectSeq(calls, LAMBDA c : c.op = "find_transcript")

\* The languages of the preference list whose lookup succeeds.
Succeeding == {k \in 1..Len(languages) : languages[k] \in svc.avail}

FirstSucceeding == CHOOSE k \in Succeeding : \A j \in Succeeding : k <= j

\* A transcript handle has been selected (and possibly fetched since).
Selected ==
    \/ pc \in {"fetch", "render", "output", "returned"}
    \/ CallsOf({"fetch"}) # {}

\* C6: with a non-empty preference list, find_transcript is asked for the
\* languages in list order, one at a time; the first language whose lookup
\* succeeds gives the transcript used; after it no later entry is asked for
\* and neither the generated lookup nor the listing iteration is consulted.
C6_FirstSuccessWins ==
    (Orchestrating /\ Truthy(languages)) =>
        /\ Len(FindCalls) <= Len(languages)
        /\ \A k \in 1..Len(FindCalls) :
            /\ FindCalls[k].arg = <<languages[k]>>
            /\ k < Len(FindCalls) => languages[k] \notin svc.avail
        /\ Succeeding # {} =>
            /\ CallsOf({"find_generated_transcript", "iter"}) = {}
            /\ Len(FindCalls) <= FirstSucceeding
            /\ Selected =>
                /\ Len(FindCalls) = FirstSucceeding
                /\ transcript = Found(languages[FirstSucceeding])
            /\ \A k \in CallsOf({"fetch"}) :
                calls[k].arg = Found(languages[FirstSucceeding])

\* The first entry failed, the second succeeded and was fetched, and a third
\* entry was never asked for.
C6_Witness ==
    /\ Orchestrating /\ Truthy(languages)
    /\ Len(languages) = 3
    /\ languages[1] \notin svc.avail
    /\ languages[2] \in svc.avail
    /\ Len(FindCalls) = 2
    /\ \E k \in CallsOf({"fetch"}) : calls[k].arg = Found(languages[2]) /\ calls[k].ok
    /\ Ended

\* What the no-preference policy selects for this service: the generated
\* transcript in the default language if that lookup succeeds, otherwise the
\* first transcript the listing yields, otherwise nothing.
NoPreferenceChoice ==
    IF svc.genOk THEN [via |-> "find_generated_transcript", lang |-> "en"]
    ELSE IF Len(svc.listing) > 0 THEN Head(svc.listing)
    ELSE NoneT

\* C7: when the lookup fails for every language of the preference list, the
\* transcript selected is the one the no-preference policy selects.
C7_FallbackIsNoPreference ==
    (Orchestrating /\ Truthy(languages) /\ Succeeding = {}) =>
        /\ Selected => transcript = NoPreferenceChoice
        /\ \A k \in CallsOf({"fetch"}) : calls[k].arg = NoPreferenceChoice
        /\ (Ended /\ CallsOf({"iter"}) # {} /\ CallsOf({"fetch"}) = {})
            => NoPreferenceChoice = NoneT

\* Every preferred language failed, the generated lookup failed too, and the
\* listing's first transcript was fetched.
C7_Witness ==
    /\ Orchestrating /\ Truthy(languages) /\ Succeeding = {}
    /\ ~svc.genOk
    /\ Len(svc.listing) = 2
    /\ \E k \in CallsOf({"fetch"}) : calls[k].arg = svc.listing[1]

\* C8: with no preference, the generated lookup is the first lookup; when it
\* succeeds its transcript is the one fetched and the listing is never
\* iterated; the listing's first transcript is used only when it fails.
C8_GeneratedFirst ==
    (Orchestrating /\ ~Truthy(languages)) =>
        /\ CallsOf({"find_transcript"}) = {}
        /\ \A k \in CallsOf(Lookups) :
            \E g \in CallsOf({"find_generated_transcript"}) : g <= k
        /\ svc.genOk =>
            /\ CallsOf({"iter"}) = {}
            /\ Selected => transcript = Generated
            /\ \A k \in CallsOf({"fetch"}) : calls[k].arg = Generated
        /\ \A k \in CallsOf({"fetch"}) :
            calls[k].arg # Generated =>
                /\ ~svc.genOk
                /\ calls[k].arg = svc.listing[1]
                /\ \E g \in CallsOf({"find_generated_transcript"}) : ~calls[g].ok

\* No preference, the generated lookup succeeded while the listing holds
\* transcripts, and the generated transcript was fetched.
C8_Witness ==
    /\ Orchestrating /\ ~Truthy(languages)
    /\ svc.genOk /\ svc.listing # <<>>
    /\ \E k \in CallsOf({"fetch"}) : calls[k].arg = Generated /\ calls[k].ok
    /\ Ended

\* No transcript is obtainable: the listing call failed, or the listing
\* iteration (the last resort) yielded nothing, or fetch() failed.
NoTranscript ==
    \E k \in CallsOf({"list", "iter", "fetch"}) : ~calls[k].ok

\* No rendered text exists anywhere: none returned, none printed, none in
\* the output file.
NoRenderedText ==
    /\ ret = None
    /\ formatted = None
    /\ \A k \in 1..Len(stdout) : stdout[k].msg \notin {"text", "saved", "banner"}
    /\ outfile \in {None, OldContent}

\* No service call is issued twice: one call at most of each kind, and one
\* find_transcript call at most for each entry of the preference list.
NoRepeatedCall ==
    /\ \A op \in {"list", "find_generated_transcript", "iter", "fetch"} :
        Cardinality(CallsOf({op})) <= 1
    /\ Len(FindCalls) <= (IF Truthy(languages) THEN Len(languages) ELSE 0)
    /\ \A k \in 1..Len(FindCalls) : FindCalls[k].arg = <<languages[k]>>

\* C9: whenever no transcript is obtainable, the invocation has ended with a
\* non-zero exit status, no rendered text, the failed call being the last
\* call made and no call repeated.
C9_FetchFailure ==
    (Orchestrating /\ NoTranscript) =>
        /\ pc = "exited"
        /\ exit_code = 1
        /\ NoRenderedText
        /\ ~calls[Len(calls)].ok
        /\ NoRepeatedCall

\* main ended after every lookup failed: the preferred languages, the
\* generated lookup and the listing iteration.
C9_Witness ==
    /\ entry = "main" /\ Truthy(languages) /\ Len(languages) >= 2
    /\ CallsOf({"iter"}) # {}
    /\ NoTranscript
    /\ exit_code = 1

\* The invocation got as far as the service: the identifier was resolved and
\* the client library was imported.
ReachedService ==
    \A k \in 1..Len(stdout) : stdout[k].msg \notin {"error_invalid", "not_installed"}

\* The order and number of the calls: the listing call comes first and
\* carries the resolved identifier, nothing is listed twice, the lookups
\* follow one at a time (each after the one before it has failed), and a
\* single fetch comes last, on the handle the successful lookup handed back.
CallSequence ==
    /\ Cardinality(CallsOf({"list"})) <= 1
    /\ calls # <<>> =>
        /\ calls[1].op = "list"
        /\ calls[1].arg = video_id
        /\ ValidId(video_id) \/ entry = "main"
        /\ entry = "main" => video_id = extract_video_id(url_or_id)
    /\ \A k \in CallsOf(Lookups) :
        /\ k > 1 /\ calls[1].ok
        /\ (k < Len(calls) /\ calls[k + 1].op \in Lookups) => ~calls[k].ok
    /\ Cardinality(CallsOf({"fetch"})) <= 1
    /\ \A k \in CallsOf({"fetch"}) :
        /\ k = Len(calls)
        /\ k - 1 \in CallsOf(Lookups)
        /\ calls[k - 1].ok
        /\ calls[k].arg = HandleOf(calls[k - 1])
        /\ calls[k].arg = transcript

\* C10 as stated: every invocation makes exactly one listing call (first,
\* with the resolved identifier) and at most one fetch call (last, on the
\* selected handle), the lookups in between one after another.
C10_Original ==
    Orchestrating =>
        /\ CallSequence
        /\ Ended => Cardinality(CallsOf({"list"})) = 1

\* C10 amended: exactly one listing call in every invocation that got as far
\* as the service, and no service call at all in one that did not.
C10_CallSequence ==
    Orchestrating =>
        /\ CallSequence
        /\ (Ended /\ ReachedService) => Cardinality(CallsOf({"list"})) = 1
        /\ ~ReachedService => calls = <<>>

\* main listed a link's identifier, asked for two languages and fetched.
C10_Witness ==
    /\ entry = "main" /\ Ended
    /\ url_or_id # video_id
    /\ Len(FindCalls) = 2
    /\ CallsOf({"fetch"}) # {}
    /\ exit_code = 0

----------------------------------------------------------------------------
(* Claims about the output of cli.main                                      *)

\* The transcript texts printed to standard output so far.
PrintedTexts == {k \in 1..Len(stdout) : stdout[k].msg = "text"}

\* Identifier resolution, transcript selection and fetch have all succeeded.
AllSucceeded ==
    /\ video_id # None
    /\ \E k \in CallsOf({"fetch"}) :
        /\ calls[k].ok
        /\ k > 1 /\ calls[k - 1].op \in Lookups /\ calls[k - 1].ok

\* The invocation ended in an invalid-input, service-unavailable or fetch error.
ErrorEnded ==
    /\ pc = "exited"
    /\ \/ \E k \in 1..Len(stdout) : stdout[k].msg \in {"error_invalid", "not_installed"}
       \/ NoTranscript

\* t is the complete rendering of the fetched segments: every segment's line,
\* in order, a newline between consecutive lines, nothing else.
CompleteRendering(t) ==
    LET n == Len(transcript_data)
    IN  IF n = 0 THEN t = <<>>
        ELSE /\ Len(t) = LineOffset(n) + Len(ExpectedLine(n))
             /\ \A k \in 1..n :
                    SubSeq(t, LineOffset(k) + 1,
                           LineOffset(k) + Len(ExpectedLine(k))) = ExpectedLine(k)
             /\ \A k \in 1..(n - 1) :
                    t[LineOffset(k) + Len(ExpectedLine(k)) + 1] = "\n"

\* In every state of main: printed text implies full success and is the
\* complete rendering; after an error ending nothing was printed as text and
\* the file holds what it held before (or still does not exist).
OutputStateOk ==
    /\ \A k \in PrintedTexts :
        /\ AllSucceeded
        /\ pc = "exited" /\ exit_code = 0
        /\ output = None
        /\ CompleteRendering(stdout[k].arg)
    /\ ErrorEnded =>
        /\ PrintedTexts = {}
        /\ exit_code = 1
        /\ outfile \in {None, OldContent}

\* In every step of main: the file changes only in the step that ends a fully
\* successful invocation with status 0, and then holds the complete rendering.
OutputStepOk ==
    outfile' # outfile =>
        /\ AllSucceeded
        /\ output # None
        /\ CompleteRendering(outfile')
        /\ exit_code' = 0 /\ pc' = "exited"

----------------------------------------------------------------------------
(* The resolver's result as a Video Identifier                              *)

\* C12 as stated: whatever the input, a result other than None is a valid
\* Video Identifier, exactly 11 characters of the alphabet [a-zA-Z0-9_-].
C12_Original ==
    (Resolved /\ video_id # None) => ValidId(video_id)

----------------------------------------------------------------------------
(* The two copies of the selection logic                                    *)

\* The service calls that the arguments, the service's answers and the
\* outcomes of the listing and fetch calls determine, whichever copy runs.
\* First the lookups: the preferred languages up to the first that succeeds,
\* then, if none did, the generated lookup and, if it fails, the iteration.
ReferenceFinds ==
    IF ~Truthy(languages) THEN <<>>
    ELSE LET n == IF Succeeding = {} THEN Len(languages) ELSE FirstSucceeding
         IN  [k \in 1..n |-> [op |-> "find_transcript", arg |-> <<languages[k]>>,
                              ok |-> languages[k] \in svc.avail]]

ReferenceFallback ==
    IF Truthy(languages) /\ Succeeding # {} THEN <<>>
    ELSE <<[op |-> "find_generated_transcript", arg |-> <<"en">>, ok |-> svc.genOk]>>
         \o (IF svc.genOk THEN <<>>
             ELSE <<[op |-> "iter", arg |-> None, ok |-> svc.listing # <<>>]>>)

ReferenceLookups == ReferenceFinds \o ReferenceFallback

\* The whole sequence, given how the listing call and the fetch call end.
ReferenceCalls(listOk, fetchOk) ==
    <<[op |-> "list", arg |-> video_id, ok |-> listOk]>>
    \o (IF ~listOk THEN <<>>
        ELSE ReferenceLookups
             \o (IF ReferenceLookups[Len(ReferenceLookups)].ok
                 THEN <<[op |-> "fetch",
                         arg |-> HandleOf(ReferenceLookups[Len(ReferenceLookups)]),
                         ok |-> fetchOk]>>
                 ELSE <<>>))

\* Two call records are the same call with the same outcome.
SameCall(a, b) == a.op = b.op /\ a.ok = b.ok /\ a.arg = b.arg

\* The log so far is the beginning of the sequence r.
LogBegins(r) ==
    /\ Len(calls) <= Len(r)
    /\ \A k \in 1..Len(calls) : SameCall(calls[k], r[k])

\* C13: cli.main and download_transcript issue the same sequence of service
\* calls and fetch the same handle, or both fail: for the same identifier,
\* preference list, service answers and call outcomes, the log of either copy
\* is at every moment the beginning of one and the same sequence, and is the
\* whole of it when the copy has got past the fetch stage or has failed in it.
C13_CopiesAgree ==
    (Orchestrating /\ calls # <<>>) =>
        LET r == ReferenceCalls(calls[1].ok, calls[Len(calls)].ok)
        IN  /\ LogBegins(r)
            /\ (Ended \/ pc \in {"render", "output"}) => Len(calls) = Len(r)
            /\ (Ended /\ ~NoTranscript) => calls[Len(calls)].op = "fetch"
            /\ NoTranscript => pc = "exited" /\ exit_code = 1

\* main went through a failed preferred language, a failed generated lookup
\* and the listing iteration, and fetched the listing's first transcript.
C13_Witness ==
    /\ entry = "main" /\ Ended /\ Truthy(languages)
    /\ Len(calls) = Len(languages) + 4
    /\ calls[Len(calls)].op = "fetch" /\ calls[Len(calls)].ok
    /\ calls[Len(calls)].arg = svc.listing[1]

====
